---- MODULE Spec2Model ----
(***************************************************************************)
(* Model of oviro-next: the draft-plan route handler                       *)
(* (src/app/api/draft-plan/route.ts) and the client form                   *)
(* (src/app/page.tsx).                                                     *)
(*                                                                         *)
(* Text.  A JavaScript string is a sequence of tokens.  A character the    *)
(* user (or the completion service) supplies is a one-character token; a   *)
(* literal of the source text is one token holding the literal.  No input  *)
(* of the model spells a literal of the source, so two strings are equal   *)
(* exactly when their token sequences are.  The values undefined/null, a   *)
(* falsy non-string (0, false) and a truthy non-string (5, true, {}) are   *)
(* the one-token sequences Undef, Zero and Num, which are no strings.      *)
(***************************************************************************)
EXTENDS Integers, Sequences, FiniteSets, TLC

VARIABLES
    env_key,     \* process.env.OPENAI_API_KEY
    request,     \* the HTTP request given to POST
    pc,          \* POST's position: "received", "awaiting", "done"
    frame,       \* POST's locals that live across the awaited call
    outbox,      \* the calls made to openai.chat.completions.create
    response,    \* the NextResponse POST returned
    children,    \* HomePage state: the child rows
    philosophy,  \* HomePage state
    location,    \* HomePage state
    goals,       \* HomePage state
    summary,     \* HomePage state: the preview text, or NoSummary
    now          \* the value Date.now() returns

vars == <<env_key, request, pc, frame, outbox, response,
          children, philosophy, location, goals, summary, now>>

serverVars == <<env_key, request, pc, frame, outbox, response>>
formVars == <<children, philosophy, location, goals, summary, now>>

-----------------------------------------------------------------------------
(* Bounds *)

MaxChildren == 2
MaxStrLen == 2
MaxRows == 3
MaxClock == 4

-----------------------------------------------------------------------------
(* JavaScript values and strings *)

Undef == <<"undefined">>
Zero == <<"0n">>
Num == <<"5n">>
NonStrings == {Undef, Zero, Num}

IsString(v) == v \notin NonStrings

\* ToBoolean: undefined, null, 0, false and "" are falsy.
Truthy(v) == IF IsString(v) THEN Len(v) > 0 ELSE v = Num

\* a || b
Or(a, b) == IF Truthy(a) THEN a ELSE b

\* the characters String.prototype.trim removes, as far as the inputs hold them
WhiteSpace == {" ", "\n"}

\* the index of the first character of s at or after i that is no white space
RECURSIVE SkipForward(_, _)
SkipForward(s, i) ==
    IF i <= Len(s) /\ s[i] \in WhiteSpace THEN SkipForward(s, i + 1) ELSE i

\* the index of the last character of s at or before i that is no white space
RECURSIVE SkipBackward(_, _)
SkipBackward(s, i) ==
    IF i >= 1 /\ s[i] \in WhiteSpace THEN SkipBackward(s, i - 1) ELSE i

\* String.prototype.trim
Trim(s) == SubSeq(s, SkipForward(s, 1), SkipBackward(s, Len(s)))

\* Number.prototype.toString in base 10, as `${index + 1}` formats it
RECURSIVE Decimal(_)
Decimal(n) ==
    LET digit == <<"0", "1", "2", "3", "4", "5", "6", "7", "8", "9">>[(n % 10) + 1]
    IN  IF n < 10 THEN <<digit>> ELSE Append(Decimal(n \div 10), digit)

\* Array.prototype.join
RECURSIVE Join(_, _)
Join(parts, sep) ==
    IF parts = <<>> THEN <<>>
    ELSE IF Len(parts) = 1 THEN parts[1]
    ELSE parts[1] \o sep \o Join(Tail(parts), sep)

\* all sequences over S of length at most n
StrsUpTo(S, n) == UNION {[1..k -> S] : k \in 0..n}

-----------------------------------------------------------------------------
(* route.ts: the request and its parts *)

\* a JSON null among body.children
NullElement == [null |-> TRUE]

\* type ChildInput, with the position in the payload as id
ChildInput(i, n, a, g) == [id |-> i, name |-> n, age |-> a, grade |-> g]

\* `await req.json()` rejects when the body is no JSON text
JsonThrows(req) == req.json = "unparseable"

\* `body.children`, `body.philosophy`, ... on null throw a TypeError
BodyThrows(req) == req.body.kind = "null"

\* body.<field>: undefined on a number, a string, a boolean or an array
Field(body, f) == IF body.kind = "object" THEN body[f] ELSE Undef

\* Array.isArray(body.children) ? body.children : []
ChildrenOf(body) ==
    IF body.kind = "object" /\ body.children.isArray
    THEN body.children.items
    ELSE <<>>

\* OrNotSpecified with ?? for ||
OrNotSpecifiedNullish(v) == IF v = Undef THEN <<"Not specified">> ELSE v

\* body.philosophy || 'Not specified'
NotSpecified == <<"Not specified">>
OrNotSpecified(v) == Or(v, NotSpecified)

\* FieldTest with the trim left out: `c.name`
FieldTestNoTrim(v) == IF Truthy(v) THEN "truthy" ELSE "falsy"

\* `c.name && c.name.trim()` as a condition: "truthy", "falsy", or "throw" when
\* the value is truthy and has no trim method
FieldTest(v) ==
    IF ~Truthy(v) THEN "falsy"
    ELSE IF ~IsString(v) THEN "throw"
    ELSE IF Truthy(Trim(v)) THEN "truthy" ELSE "falsy"

\* the filter callback: the three tests joined by ||, left to right, stopping at
\* the first that is truthy or throws; a property read on null throws
FilterTest(c) ==
    IF c = NullElement THEN "throw"
    ELSE IF FieldTest(c.name) # "falsy" THEN FieldTest(c.name)
    ELSE IF FieldTest(c.age) # "falsy" THEN FieldTest(c.age)
    ELSE FieldTest(c.grade)

FilterThrows(items) == \E i \in 1..Len(items) : FilterTest(items[i]) = "throw"

\* Keep testing the name alone
KeepNameOnly(c) == FieldTest(c.name) = "truthy"

Keep(c) == FilterTest(c) = "truthy"

\* children.filter(...)
FilledChildren(items) == SelectSeq(items, Keep)

\* `v?.trim()`: undefined for undefined/null, a TypeError for any other non-string
OptTrimThrows(v) == v \in {Zero, Num}
OptTrim(v) == IF v = Undef THEN Undef ELSE Trim(v)

\* ChildN with the index as map counts it: `Child ${index}`
ChildNFromZero(index) == <<"Child ">> \o Decimal(index)

\* `Child ${index + 1}`
ChildN(index) == <<"Child ">> \o Decimal(index + 1)

\* the map callback, index counted from 0
Describe(c, index) ==
    Or(OptTrim(c.name), ChildN(index))
        \o <<" (age ">> \o Or(OptTrim(c.age), <<"?">>)
        \o <<", grade ">> \o Or(OptTrim(c.grade), <<"?">>)
        \o <<")">>

\* the callback reads name, age and grade in turn
DescribeThrows(c) ==
    OptTrimThrows(c.name) \/ OptTrimThrows(c.age) \/ OptTrimThrows(c.grade)

MapThrows(filled) == \E i \in 1..Len(filled) : DescribeThrows(filled[i])

\* filledChildren.map(...).join(', ')
ChildDescriptions(filled) ==
    Join([i \in 1..Len(filled) |-> Describe(filled[i], i - 1)], <<", ">>)

\* the user message sent to the completion service
Prompt(descr, phil, loc, gls) ==
    Trim(<<"\n", "You are an assistant helping a homeschool parent plan the year.\n\nContext:\n- Children: ">>
         \o descr \o <<"\n- Homeschooling philosophy: ">>
         \o phil \o <<"\n- Location: ">>
         \o loc \o <<" (use this only for general seasonality, do NOT assume exact curriculum standards)\n- Parent priorities for this year: ">>
         \o Or(gls, NotSpecified)
         \o <<"\n\nTask:\nWrite a clear, parent-friendly \"draft planning summary\" in 3-6 short paragraphs.\n\nInclude:\n- A brief overall perspective on the year based on the philosophy\n- Key focus areas for each child (high-level, not a detailed schedule)\n- Suggestions for how to balance multiple children and grade levels\n- 2-4 concrete next steps the parent can take this week to move forward\n\nTone:\n- Encouraging, practical, and clear\n- No jargon\n- Do NOT mention that you are an AI or reference prompts or tokens.",
              "\n", " ", " ", " ", " ">>)

\* KeyMissing as a test for undefined alone
KeyMissingStrict(key) == key = Undef

\* !process.env.OPENAI_API_KEY
KeyMissing(key) == ~Truthy(key)

\* the fallback summary of step 5
FallbackSummary(descr, phil, loc, gls) ==
    Trim(<<"\n", "Draft planning summary (local fallback)\n--------------------------------------\nChildren: ">>
         \o descr \o <<"\nPhilosophy: ">>
         \o phil \o <<"\nLocation: ">>
         \o loc \o <<"\nParent priorities: ">>
         \o gls
         \o <<"\n\nNote: The OpenAI API key is not configured on the server, so this is a simple placeholder summary instead of an AI-generated one.",
              "\n", " ", " ", " ", " ", " ", " ">>)

\* the argument of openai.chat.completions.create
SystemMessage ==
    <<"You are a helpful assistant that specializes in homeschool planning summaries for parents.">>

CreateArgs(prompt) ==
    [model |-> "gpt-4o-mini",
     messages |-> << [role |-> "system", content |-> SystemMessage],
                     [role |-> "user", content |-> prompt] >>,
     temperature |-> "0.7"]

\* completion.choices[0]?.message?.content?.trim() || 'Unable to ...'
UnableToGenerate == <<"Unable to generate a summary at this time.">>

\* AiSummary with the trim left out
AiSummaryNoTrim(completion) ==
    Or(IF completion.choices = <<>> THEN Undef ELSE completion.choices[1].content,
       UnableToGenerate)

AiSummary(completion) ==
    Or(IF completion.choices = <<>> THEN Undef
       ELSE OptTrim(completion.choices[1].content),
       UnableToGenerate)

\* Ok echoing the children as they came: `children: children`
OkUnfiltered(text, filled, phil, loc, gls) ==
    [status |-> 200,
     summary |-> text,
     normalized |-> [children |-> ChildrenOf(request.body), philosophy |-> phil,
                     location |-> loc, goals |-> gls]]

\* NextResponse.json({ summary, normalized: {...} })
Ok(text, filled, phil, loc, gls) ==
    [status |-> 200,
     summary |-> text,
     normalized |-> [children |-> filled, philosophy |-> phil,
                     location |-> loc, goals |-> gls]]

ValidationMessage == "At least one child is required."
GenericMessage == "Invalid request payload or AI generation error."

\* the 400 of step 2
Rejection == [status |-> 400, error |-> ValidationMessage]

\* Caught passing the error on: `error: String(err)`
CaughtLeaky(err) == [status |-> 400, error |-> err]

\* the catch block: the same body whatever was thrown
Caught(err) == [status |-> 400, error |-> GenericMessage]

NoResponse == [status |-> 0]
NoFrame == [settled |-> "none"]

\* the locals POST holds while it awaits the completion
Frame(filled, phil, loc, gls) ==
    [settled |-> "pending", filledChildren |-> filled, philosophy |-> phil,
     location |-> loc, goals |-> gls]

-----------------------------------------------------------------------------
(* route.ts: POST *)

\* POST returning r
Return(r) == [pc |-> "done", response |-> r, frame |-> NoFrame, calls |-> <<>>]

\* POST suspended on `await openai.chat.completions.create(args)`
Await(args, locals) ==
    [pc |-> "awaiting", response |-> NoResponse, frame |-> locals, calls |-> <<args>>]

\* POST from its first line to its first return, or to the awaited call
Run(req, key) ==
    IF JsonThrows(req) THEN Return(Caught("SyntaxError"))
    ELSE IF BodyThrows(req) THEN Return(Caught("TypeError: body"))
    ELSE
      LET body == req.body
          items == ChildrenOf(body)
          phil == OrNotSpecified(Field(body, "philosophy"))
          loc == OrNotSpecified(Field(body, "location"))
          gls == OrNotSpecified(Field(body, "goals"))
          filled == FilledChildren(items)
          descr == ChildDescriptions(filled)
      IN  IF FilterThrows(items) THEN Return(Caught("TypeError: filter"))
          ELSE IF Len(filled) = 0 THEN Return(Rejection)
          ELSE IF MapThrows(filled) THEN Return(Caught("TypeError: map"))
          ELSE IF KeyMissing(key)
          THEN Return(Ok(FallbackSummary(descr, phil, loc, gls),
                         filled, phil, loc, gls))
          ELSE Await(CreateArgs(Prompt(descr, phil, loc, gls)),
                     Frame(filled, phil, loc, gls))

POST ==
    /\ pc = "received"
    /\ pc' = Run(request, env_key).pc
    /\ response' = Run(request, env_key).response
    /\ frame' = Run(request, env_key).frame
    /\ outbox' = outbox \o Run(request, env_key).calls
    /\ UNCHANGED <<env_key, request, formVars>>

\* the awaited call returns `completion`; POST runs to its last return
Resolve(completion) ==
    /\ pc = "awaiting"
    /\ frame' = [frame EXCEPT !.settled = "resolved"] @@ [completion |-> completion]
    /\ response' = Ok(AiSummary(completion), frame.filledChildren,
                      frame.philosophy, frame.location, frame.goals)
    /\ pc' = "done"
    /\ UNCHANGED <<env_key, request, outbox, formVars>>

\* the awaited call throws; POST runs its catch block
Reject ==
    /\ pc = "awaiting"
    /\ frame' = [frame EXCEPT !.settled = "rejected"]
    /\ response' = Caught("APIError")
    /\ pc' = "done"
    /\ UNCHANGED <<env_key, request, outbox, formVars>>

-----------------------------------------------------------------------------
(* The inputs of POST *)

Chars == {" ", "7"}
Strs == StrsUpTo(Chars, MaxStrLen)
ShortStrs == {<<>>, <<" ">>, <<"7">>}

\* lists of at most n elements, each <<name, age, grade>> from triples or,
\* for the empty tuple, null; a record's id is its position
ChildLists(triples, n) ==
    UNION {
      { [i \in 1..k |-> IF f[i] = <<>> THEN NullElement
                        ELSE ChildInput(i, f[i][1], f[i][2], f[i][3])] :
          f \in [1..k -> triples] } : k \in 0..n }

ObjectBody(items, phil, loc, gls) ==
    [kind |-> "object", children |-> [isArray |-> TRUE, items |-> items],
     philosophy |-> phil, location |-> loc, goals |-> gls]

Parsed(body) == [json |-> "ok", body |-> body]

\* several children, short fields
ManyChildren ==
    { Parsed(ObjectBody(l, Undef, <<>>, <<"7">>)) :
        l \in ChildLists(ShortStrs \X ShortStrs \X {<<>>, <<"7">>}, MaxChildren) }

\* one child, every field missing or any string
OneChild ==
    { Parsed(ObjectBody(l, Undef, <<>>, <<"7">>)) :
        l \in ChildLists(({Undef} \cup Strs) \X ({Undef} \cup Strs) \X ({Undef} \cup Strs), 1) }

\* every scalar missing or any string
Scalars ==
    { Parsed(ObjectBody(l, s[1], s[2], s[3])) :
        l \in {<<>>, <<ChildInput(1, <<"7">>, Undef, <<" ">>)>>},
        s \in ({Undef} \cup Strs) \X ({Undef} \cup Strs) \X ({Undef} \cup ShortStrs) }

\* bodies that are no JSON, no object, or hold no list, null elements or
\* non-string fields
Malformed ==
    { [json |-> "unparseable"], Parsed([kind |-> "null"]), Parsed([kind |-> "primitive"]),
      Parsed([kind |-> "object", children |-> [isArray |-> FALSE, items |-> <<>>],
              philosophy |-> Undef, location |-> <<>>, goals |-> <<"7">>]) }
    \cup { Parsed(ObjectBody(l, Undef, <<>>, <<"7">>)) :
             l \in ChildLists({<<>>} \cup ({Undef, <<"7">>, Num}
                                             \X {Undef, Zero, Num}
                                             \X {Undef, Num}), MaxChildren) }

Requests == ManyChildren \cup OneChild \cup Scalars \cup Malformed

KeyVals == {Undef, <<>>, <<"s", "k">>}

Completions ==
    { [choices |-> <<>>] }
    \cup { [choices |-> <<[content |-> c]>>] : c \in {Undef} \cup Strs }

-----------------------------------------------------------------------------
(* page.tsx: HomePage *)

NoSummary == Undef

philosophies ==
    { <<"Charlotte Mason">>, <<"Montessori">>, <<"Classical">>, <<"Waldorf">>,
      <<"Unschooling">>, <<"Eclectic / Mixed">> }

\* type Child
Child(i, n, a, g) == [id |-> i, name |-> n, age |-> a, grade |-> g]

\* the useState initial values
FormInit ==
    /\ children = << Child(1, <<>>, <<>>, <<>>) >>
    /\ philosophy = <<"Charlotte Mason">>
    /\ location = <<>>
    /\ goals = <<>>
    /\ summary = NoSummary

\* what the name and grade inputs (type="text") and the age input
\* (type="number": empty or a numeral) can hand to onChange
TextInputs == ShortStrs
AgeInputs == {<<>>, <<"7">>}
InputsOf(field) == IF field = "age" THEN AgeInputs ELSE TextInputs

\* Date.now() advances
Tick ==
    /\ now < MaxClock
    /\ now' = now + 1
    /\ UNCHANGED <<children, philosophy, location, goals, summary, serverVars>>

\* the id addChild gives the new row
NewId(clock, rows) == clock

addChild ==
    /\ Len(children) < MaxRows
    /\ children' = Append(children, Child(NewId(now, children), <<>>, <<>>, <<>>))
    /\ UNCHANGED <<philosophy, location, goals, summary, now, serverVars>>

\* prev.map(child => child.id === id ? { ...child, [field]: value } : child)
Updated(rows, id, field, value) ==
    [i \in 1..Len(rows) |->
        IF rows[i].id = id THEN [rows[i] EXCEPT ![field] = value] ELSE rows[i]]

\* onChange of an input of the row at position i
updateChild(i, field, value) ==
    /\ children' = Updated(children, children[i].id, field, value)
    /\ UNCHANGED <<philosophy, location, goals, summary, now, serverVars>>

\* prev.filter(child => child.id !== id)
Removed(rows, id) == SelectSeq(rows, LAMBDA child : child.id # id)

\* onClick of the Remove button of the row at position i, rendered only
\* while children.length > 1
removeChild(i) ==
    /\ Len(children) > 1
    /\ children' = Removed(children, children[i].id)
    /\ UNCHANGED <<philosophy, location, goals, summary, now, serverVars>>

\* PreviewKeep with the trims left out
PreviewKeepNoTrim(c) == Truthy(Or(Or(c.name, c.age), c.grade))

\* c.name.trim() || c.age.trim() || c.grade.trim()
PreviewKeep(c) == Truthy(Or(Or(Trim(c.name), Trim(c.age)), Trim(c.grade)))

\* the label handleGenerate gives a row
PreviewLabel(c) ==
    Or(c.name, <<"Unnamed">>)
        \o <<" (age ">> \o Or(c.age, <<"?">>)
        \o <<", grade ">> \o Or(c.grade, <<"?">>)
        \o <<")">>

PreviewDescriptions(filled) ==
    Join([i \in 1..Len(filled) |-> PreviewLabel(filled[i])], <<", ">>)

AddChildMessage == <<"Add at least one child to generate a draft plan.">>

PreviewText(descr, phil, loc, gls) ==
    Trim(<<"\n", "Draft planning summary\n----------------------\nChildren: ">>
         \o descr \o <<"\nPhilosophy: ">>
         \o phil \o <<"\nLocation: ">>
         \o Or(loc, NotSpecified) \o <<"\nParent priorities: ">>
         \o Or(gls, NotSpecified)
         \o <<"\n\nNext step (future): send this data to the AI backend to generate a year plan, weekly schedule, and resource suggestions.",
              "\n", " ", " ", " ", " ">>)

handleGenerate ==
    /\ summary' =
         LET filled == SelectSeq(children, PreviewKeep)
         IN  IF Len(filled) = 0 THEN AddChildMessage
             ELSE PreviewText(PreviewDescriptions(filled), philosophy, location, goals)
    /\ UNCHANGED <<children, philosophy, location, goals, now, serverVars>>

\* no request is being handled
ServerIdle ==
    /\ env_key = Undef
    /\ request = [json |-> "none"]
    /\ pc = "idle"
    /\ frame = NoFrame
    /\ outbox = <<>>
    /\ response = NoResponse

-----------------------------------------------------------------------------
(* The route handler on every request *)

Init ==
    /\ env_key \in KeyVals
    /\ request \in Requests
    /\ pc = "received"
    /\ frame = NoFrame
    /\ outbox = <<>>
    /\ response = NoResponse
    /\ FormInit
    /\ now = 2

Next ==
    \/ POST
    \/ \E c \in Completions : Resolve(c)
    \/ Reject

Spec == Init /\ [][Next]_vars

-----------------------------------------------------------------------------
(* The form as the user edits its rows *)

FormFields == {"name", "age", "grade"}

InitForm ==
    /\ ServerIdle
    /\ FormInit
    /\ now = 2

NextForm ==
    \/ Tick
    \/ addChild
    \/ \E i \in 1..Len(children), f \in FormFields :
          \E v \in InputsOf(f) : updateChild(i, f, v)
    \/ \E i \in 1..Len(children) : removeChild(i)

SpecForm == InitForm /\ [][NextForm]_vars

-----------------------------------------------------------------------------
(* The preview on every form the user can have filled in *)

Numerals == StrsUpTo({"7"}, MaxStrLen)

Rows ==
    (ChildLists(TextInputs \X AgeInputs \X {<<>>, <<"7">>}, MaxChildren)
        \cup ChildLists(Strs \X Numerals \X Strs, 1)) \ {<<>>}

InitPreview ==
    /\ ServerIdle
    /\ children \in Rows
    /\ philosophy \in philosophies
    /\ location \in {<<>>, <<"7">>}
    /\ goals \in {<<>>, <<" ", "7">>}
    /\ summary = NoSummary
    /\ now = 2

NextPreview == handleGenerate

SpecPreview == InitPreview /\ [][NextPreview]_vars

-----------------------------------------------------------------------------
(* Vocabulary of the properties, stated without the handler's operators *)

\* a string with a character that is no white space: "non-empty after trimming"
HasText(v) == IsString(v) /\ \E i \in 1..Len(v) : v[i] \notin WhiteSpace

\* missing, empty or white space only
Blank(v) == v = Undef \/ (IsString(v) /\ \A i \in 1..Len(v) : v[i] \in WhiteSpace)

\* s from its first to its last character that is no white space
TrimOf(s) ==
    LET ink == {i \in 1..Len(s) : s[i] \notin WhiteSpace}
    IN  IF ink = {} THEN <<>>
        ELSE SubSeq(s, CHOOSE i \in ink : \A j \in ink : i <= j,
                       CHOOSE i \in ink : \A j \in ink : j <= i)

\* the payload is a JSON object, as the endpoint documents it
IsObject(req) == req.json = "ok" /\ req.body.kind = "object"

\* the children of an object payload; none when the field is no list
Input(req) == IF req.body.children.isArray THEN req.body.children.items ELSE <<>>

\* an element that is a record whose text fields are missing or strings
IsRecord(c) ==
    /\ c # NullElement
    /\ \A f \in {"name", "age", "grade"} : c[f] = Undef \/ IsString(c[f])

FilledRecord(c) ==
    IsRecord(c) /\ (HasText(c.name) \/ HasText(c.age) \/ HasText(c.grade))

BlankRecord(c) ==
    c # NullElement /\ Blank(c.name) /\ Blank(c.age) /\ Blank(c.grade)

\* the positions of the filled records, and the k-th of them
FilledAt(in) == {i \in 1..Len(in) : FilledRecord(in[i])}
Nth(S, k) == CHOOSE i \in S : Cardinality({j \in S : j <= i}) = k

\* an object payload of records, one of them filled
WellFormed(req) ==
    IsObject(req) /\ \A i \in 1..Len(Input(req)) : IsRecord(Input(req)[i])
WellFormedFilled(req) == WellFormed(req) /\ FilledAt(Input(req)) # {}

\* the label of the record at position i of the payload
LabelAt(in, i) ==
    LET c == in[i]
        n == Cardinality({j \in FilledAt(in) : j <= i})
    IN  (IF HasText(c.name) THEN TrimOf(c.name) ELSE <<"Child ", ToString(n)>>)
          \o <<" (age ">> \o (IF HasText(c.age) THEN TrimOf(c.age) ELSE <<"?">>)
          \o <<", grade ">> \o (IF HasText(c.grade) THEN TrimOf(c.grade) ELSE <<"?">>)
          \o <<")">>

\* the labels of the filled records among the first n, joined with ", "
RECURSIVE LabelsUpTo(_, _)
LabelsUpTo(in, n) ==
    IF n = 0 THEN <<>>
    ELSE IF n \notin FilledAt(in) THEN LabelsUpTo(in, n - 1)
    ELSE IF LabelsUpTo(in, n - 1) = <<>> THEN LabelAt(in, n)
    ELSE LabelsUpTo(in, n - 1) \o <<", ">> \o LabelAt(in, n)

Labels(in) == LabelsUpTo(in, Len(in))

\* sub occurs in s
Contains(s, sub) ==
    \E a \in 0..(Len(s) - Len(sub)) : \A k \in 1..Len(sub) : s[a + k] = sub[k]

\* a scalar of the payload after defaulting
Defaulted(v) == IF IsString(v) /\ v # <<>> THEN v ELSE <<"Not specified">>

AllBlank(req) ==
    IsObject(req) /\ \A i \in 1..Len(Input(req)) : BlankRecord(Input(req)[i])

NoKey == env_key = Undef \/ env_key = <<>>

Fails(req) ==
    \/ req.json = "unparseable"
    \/ req.body.kind = "null"
    \/ /\ req.body.kind = "object"
       /\ \E i \in 1..Len(Input(req)) :
             \/ Input(req)[i] = NullElement
             \/ Input(req)[i].name = Num
             \/ HasText(Input(req)[i].name) /\ Input(req)[i].age \in {Zero, Num}

Returned == frame.settled = "resolved"

ReturnedText ==
    IF frame.completion.choices = <<>> THEN Undef
    ELSE frame.completion.choices[1].content

\* a row whose name is not blank and whose fields have no white space at
\* either end
Clean(c) ==
    /\ HasText(c.name)
    /\ \A f \in {"name", "age", "grade"} :
          c[f] = <<>> \/ (c[f][1] \notin WhiteSpace /\ c[f][Len(c[f])] \notin WhiteSpace)

Previewed == summary # NoSummary

\* the preview text the form would show around the handler's descriptors
PreviewOfServerDescriptors ==
    PreviewText(ChildDescriptions(FilledChildren(children)), philosophy, location, goals)

Answered == pc = "done"
Summarised == response.status = 200

-----------------------------------------------------------------------------
(* C1: a payload whose child records are all blank (name, age and grade    *)
(* missing, empty or white space only), the empty list and a children      *)
(* field that is no list included, is answered 400 "At least one child is  *)
(* required.", with or without a key, and no completion is requested.     *)
C1_BlankPayloadRejected ==
    AllBlank(request) =>
        /\ pc \in {"received", "done"}
        /\ outbox = <<>>
        /\ Answered => response = [status |-> 400,
                                   error |-> "At least one child is required."]

C1_Witness ==
    /\ Answered
    /\ Truthy(env_key)
    /\ AllBlank(request)
    /\ Len(Input(request)) = MaxChildren
    /\ Input(request)[1].name = <<" ">>
    /\ response.status = 400

(* C2: in a 200 response normalized.children is the payload's children     *)
(* with the records that are not filled left out: the same records, in the *)
(* same order, none added, dropped or changed.                             *)
C2_NormalizedChildrenAreTheFilled ==
    Summarised =>
        LET in == Input(request)
            out == response.normalized.children
        IN  /\ FilledAt(in) # {}
            /\ Len(out) = Cardinality(FilledAt(in))
            /\ \A k \in 1..Len(out) : out[k] = in[Nth(FilledAt(in), k)]

C2_Witness ==
    /\ Summarised
    /\ Len(Input(request)) = 2
    /\ ~FilledRecord(Input(request)[1])
    /\ response.normalized.children = <<Input(request)[2]>>

(* C3: the descriptor string is the labels "<name> (age <age>, grade       *)
(* <grade>)" of the filled records in payload order joined with ", ", each *)
(* field trimmed, an empty name replaced by "Child N" with N the record's  *)
(* rank among the filled records, an empty age or grade by "?".  It is     *)
(* read where the handler puts it: the prompt sent and the local summary.  *)
C3_DescriptorString ==
    /\ outbox # <<>> =>
         outbox[1].messages[2].content =
            Prompt(Labels(Input(request)), frame.philosophy, frame.location, frame.goals)
    /\ (Summarised /\ outbox = <<>>) =>
         response.summary =
            FallbackSummary(Labels(Input(request)), response.normalized.philosophy,
                            response.normalized.location, response.normalized.goals)

C3_Witness ==
    /\ Summarised
    /\ outbox = <<>>
    /\ Len(Input(request)) = 2
    /\ BlankRecord(Input(request)[1])
    /\ Input(request)[2].name = <<>>
    /\ Input(request)[2].age = <<"7">>
    /\ Input(request)[2].grade = <<>>
    /\ Contains(response.summary, <<"Child ", "1", " (age ", "7", ", grade ", "?", ")">>)

C5_SummaryOrRejectionOnly ==
    (Answered /\ WellFormedFilled(request)) => Summarised

(* C5 as the code has it: an answered request has one of three outcomes:   *)
(* the validation rejection, a summary, or the generic 400.  A well-formed *)
(* payload is rejected exactly when no child is filled, and with a filled  *)
(* child it gets a summary unless the completion call throws, which gives  *)
(* the generic 400.                                                        *)
C5_ThreeOutcomes ==
    Answered =>
         /\ \/ response = [status |-> 400, error |-> "At least one child is required."]
            \/ response = [status |-> 400,
                           error |-> "Invalid request payload or AI generation error."]
            \/ Summarised /\ IsString(response.summary) /\ response.summary # <<>>
         /\ WellFormed(request) =>
              /\ (response.status = 400 /\ response.error = "At least one child is required.")
                   <=> FilledAt(Input(request)) = {}
              /\ Summarised <=>
                   (FilledAt(Input(request)) # {} /\ frame.settled # "rejected")

C5_Witness ==
    /\ Answered
    /\ WellFormedFilled(request)
    /\ frame.settled = "rejected"
    /\ response.status = 400

(* C6: a failure met while handling (a body that is no JSON, a null body,  *)
(* a null or non-string where a record or a string is read, a completion   *)
(* call that throws) is answered 400 with the one generic message, no      *)
(* other status is ever returned, and the completion is requested at most  *)
(* once.                                                                   *)
C6_FailuresGetGeneric400 ==
    /\ Len(outbox) <= 1
    /\ response.status \in {0, 200, 400}
    /\ Answered <=> response.status # 0
    /\ (Answered /\ (Fails(request) \/ frame.settled = "rejected")) =>
          response = [status |-> 400,
                      error |-> "Invalid request payload or AI generation error."]

C6_Witness ==
    /\ Answered
    /\ request.json = "ok"
    /\ request.body.kind = "null"
    /\ response.status = 400

(* C7: in a 200 response each of normalized.philosophy, location and goals *)
(* is the payload's value when that is a non-empty string and "Not         *)
(* specified" when it is missing or empty; whatever the scalars are, a     *)
(* well-formed payload with a filled child is not rejected by validation.  *)
C7_ScalarsDefaulted ==
    /\ Summarised =>
         \A f \in {"philosophy", "location", "goals"} :
            response.normalized[f] =
               IF IsString(request.body[f]) /\ Len(request.body[f]) > 0
               THEN request.body[f]
               ELSE <<"Not specified">>
    /\ (Answered /\ WellFormedFilled(request)) =>
         ~(response.status = 400 /\ response.error = "At least one child is required.")

C7_Witness ==
    /\ Summarised
    /\ request.body.philosophy = Undef
    /\ request.body.location = <<>>
    /\ request.body.goals = <<" ">>
    /\ response.normalized.philosophy = <<"Not specified">>
    /\ response.normalized.location = <<"Not specified">>
    /\ response.normalized.goals = <<" ">>

(* C8: when the completion call returns, the response is 200 with the      *)
(* defaulted payload, and its summary is the returned text trimmed, or     *)
(* "Unable to generate a summary at this time." when there is no choice,   *)
(* no content, or only white space.                                        *)
C8_CompletionBecomesSummary ==
    Returned =>
        /\ Answered
        /\ response.status = 200
        /\ response.summary =
             IF HasText(ReturnedText) THEN TrimOf(ReturnedText)
             ELSE <<"Unable to generate a summary at this time.">>
        /\ response.normalized.philosophy = Defaulted(request.body.philosophy)
        /\ response.normalized.location = Defaulted(request.body.location)
        /\ response.normalized.goals = Defaulted(request.body.goals)
        /\ Len(response.normalized.children) = Cardinality(FilledAt(Input(request)))

C8_Witness ==
    /\ Returned
    /\ ReturnedText = <<" ">>
    /\ response.status = 200
    /\ response.summary = <<"Unable to generate a summary at this time.">>

(* C9 as stated: handleGenerate and POST agree on whether the rows are     *)
(* valid and, when they are, build the same joined descriptor string.      *)
C9_PreviewSameAsServer ==
    Previewed =>
        /\ (summary = AddChildMessage) <=> (FilledChildren(children) = <<>>)
        /\ FilledChildren(children) # <<>> => summary = PreviewOfServerDescriptors

(* C9 as the code has it: the two agree on whether the rows are valid, and *)
(* when they are, the descriptor strings are equal exactly when every      *)
(* filled row has a name that is not blank and no white space at either    *)
(* end of its name, age or grade: the preview does not trim, and names a   *)
(* nameless row "Unnamed" where the handler says "Child N".                *)
C9_PreviewSameWhenClean ==
    Previewed =>
        /\ (summary = AddChildMessage) <=> (FilledAt(children) = {})
        /\ (FilledChildren(children) = <<>>) <=> (FilledAt(children) = {})
        /\ FilledAt(children) # {} =>
             ((summary = PreviewOfServerDescriptors)
                <=> \A i \in FilledAt(children) : Clean(children[i]))

C9_Witness ==
    /\ Previewed
    /\ Len(children) = 2
    /\ FilledAt(children) = {1, 2}
    /\ Clean(children[1]) /\ Clean(children[2])
    /\ summary = PreviewOfServerDescriptors

(* C10: the ids of the rows are pairwise distinct and the list is never    *)
(* empty, whatever rows were added, edited and removed.                    *)
C10_DistinctIdsNeverEmpty ==
    /\ children # <<>>
    /\ \A i, j \in 1..Len(children) : i # j => children[i].id # children[j].id

====
